---- MODULE Spec2Model ----
(***************************************************************************)
(* AeroPredict: the degradation-series generator (create_nasa_sample_data), *)
(* the maintenance-event synthesizer and cost-analytics aggregator          *)
(* (generate_cost_analytics) and the supplier ranker (find_best_supplier)   *)
(* of src/aeropredict_system.py, over the SQLite store the class keeps.     *)
(***************************************************************************)
EXTENDS Integers, Sequences, FiniteSets, TLC

\* ------------------------------------------------------------------ bounds
\* Scaled stand-ins for range(1, 101) and randint(150, 350) of the generator.
NumUnits == 3
MinCycles == 2
MaxCycles == 5
\* create_nasa_sample_data is called at most this many times on one data_dir.
MaxCalls == 2
\* generate_cost_analytics and add_supply_chain_data each run at most this many
\* times against one database file.
MaxRuns == 2
\* Events a database file holds before the first run (aggregator specification).
MaxPriorEvents == 2
\* Offers the supplier_parts table holds (ranker specification).
MaxOffers == 2
\* Parts of the catalog that are inserted (the first of the eight).
NumParts == 2
\* pd.read_csv parses inexactly at most one reading, among the first this many.
MaxInexact == 1

\* ------------------------------------------------------- program constants
\* config.py
MIN_CYCLES == 150
REACTIVE_LABOR_COST == 18000
REACTIVE_PARTS_COST == 12600
REACTIVE_FLIGHT_CANCELLATIONS == 3
COST_PER_CANCELLATION == 2000
\* literals of generate_cost_analytics
PredictiveEvents == 12
PredictiveLabor == 2300
PredictiveParts == 4200
PredictiveTotal == 6500
PredictiveDowntime == 6
ReactiveEvents == 3
ReactiveLabor == 18000
ReactiveParts == 12600
ReactiveTotal == 52000
ReactiveDowntime == 48
AvoidedCostPerEvent == 52000
AvoidedDowntimePerEvent == 48
CancellationsPerEvent == 3

VARIABLES
    \* --- generator (AeroPredictSystem.create_nasa_sample_data)
    num_engines,        \* number of units generated (100 in the source)
    min_cycles,         \* low argument of the lifespan draw (150)
    max_cycles,         \* high argument of the lifespan draw (350)
    stream,             \* what the generator seeded with 42 yields, draw by draw
    rng_pos,            \* number of lifespan draws since np.random.seed(42)
    pc,                 \* position inside create_nasa_sample_data
    calls,              \* number of calls of create_nasa_sample_data so far
    unit_id,            \* outer loop variable
    cycles,             \* lifespan drawn for the current unit
    cycle,              \* inner loop variable
    train_data,         \* list of rows built by the loops
    nasa_train_df,      \* self.nasa_train_df
    csv_file,           \* nasa_cmapss_train.csv in data_dir
    \* --- store (the SQLite file at db_name and the connection to it)
    conn,               \* self.conn: "none", "open" or "closed"
    nasa_sensor_data,   \* table nasa_sensor_data (id AUTOINCREMENT only)
    suppliers,          \* table suppliers (PRIMARY KEY supplier_id)
    parts_catalog,      \* table parts_catalog (part_number UNIQUE)
    supplier_parts,     \* table supplier_parts (id AUTOINCREMENT only)
    aircraft,           \* table aircraft (PRIMARY KEY aircraft_id)
    engine_components,  \* table engine_components (PRIMARY KEY component_id)
    maintenance_history,\* table maintenance_history (maintenance_id AUTOINCREMENT only)
    cost_analytics,     \* table cost_analytics (PRIMARY KEY period)
    ret                 \* the last call of a query method and what it returned

genVars == <<num_engines, min_cycles, max_cycles, stream, rng_pos, pc, calls,
             unit_id, cycles, cycle, train_data, nasa_train_df, csv_file>>

tables == <<nasa_sensor_data, suppliers, parts_catalog, supplier_parts, aircraft,
            engine_components, maintenance_history, cost_analytics>>

storeVars == <<conn, tables, ret>>

vars == <<genVars, storeVars>>

\* ------------------------------------------------------------- generator
\* A DataFrame that is None, and a file that does not exist.
NoDF == [present |-> FALSE, rows |-> <<>>]
NoFile == [present |-> FALSE, rows |-> <<>>]

DataFrame(rows) == [present |-> TRUE, rows |-> rows]

\* np.random.randint(low, high): a value of [low, high); ValueError when low >= high.
RandIntOk(low, high) == low < high

RandInt(low, high, raw) == low + (raw % (high - low))

\* The raw values one draw of the source can take.
RawValues == 0 .. (MaxCycles - MinCycles - 1)

\* The parameter triples <<units, min, max>> the generator is run with: the scaled
\* range, the collapsed range, and the values range() and randint() are handed
\* without any check: no unit, a minimum of 0 cycles, a maximum below the minimum.
GenParams ==
    {<<NumUnits, MinCycles, MaxCycles>>, <<2, MIN_CYCLES, MIN_CYCLES>>,
     <<0, MinCycles, MaxCycles>>, <<NumUnits, 0, MinCycles>>,
     <<NumUnits, MaxCycles, MinCycles>>}

\* row = [unit_id, cycle, ..., sensors]; degradation_factor = cycle / cycles is kept
\* as the fraction <<cycle, cycles>>. The sensor columns are the floats
\* a + degradation_factor * b; sensor_ulps is the distance of the stored sensor values
\* from the computed ones, in units in the last place (0 as computed).
\* Mutant: the progress counted from 0, (cycle - 1) / cycles.
RowProgressFromZero(u, c, n) ==
    [unit_id |-> u, time_cycle |-> c, degradation_factor |-> <<c - 1, n>>,
     sensor_ulps |-> 0]

\* Mutant: the cycle counted from 0, as range(cycles) would.
RowZeroBased(u, c, n) ==
    [unit_id |-> u, time_cycle |-> c - 1, degradation_factor |-> <<c - 1, n>>,
     sensor_ulps |-> 0]

Row(u, c, n) ==
    [unit_id |-> u, time_cycle |-> c, degradation_factor |-> <<c, n>>, sensor_ulps |-> 0]

\* df['unit_id'].unique(): the unit ids in order of first appearance.
RECURSIVE Unique(_)
Unique(rows) ==
    IF rows = <<>> THEN <<>>
    ELSE LET rest == Unique(SubSeq(rows, 1, Len(rows) - 1))
             u == rows[Len(rows)].unit_id
         IN IF \E i \in 1 .. Len(rest) : rest[i] = u THEN rest ELSE Append(rest, u)

\* df[df['unit_id'] == unit_id]
UnitData(rows, u) == SelectSeq(rows, LAMBDA r : r.unit_id = u)

\* unit_data['time_cycle'].max()
MaxCycle(unit_data) ==
    CHOOSE m \in {unit_data[i].time_cycle : i \in 1 .. Len(unit_data)} :
        \A i \in 1 .. Len(unit_data) : unit_data[i].time_cycle <= m

\* Mutant: the maximum is taken over the whole table, not over the unit's rows.
UnitRulGlobalMax(rows, u) ==
    LET unit_data == UnitData(rows, u)
        max_cycle == MaxCycle(rows)
    IN [i \in 1 .. Len(unit_data) |-> max_cycle - unit_data[i].time_cycle]

\* The inner loop of the second pass: rul = max_cycle - row['time_cycle'].
UnitRul(rows, u) ==
    LET unit_data == UnitData(rows, u)
        max_cycle == MaxCycle(unit_data)
    IN [i \in 1 .. Len(unit_data) |-> max_cycle - unit_data[i].time_cycle]

\* The second pass: rul_data, one entry per row visited, unit by unit.
RECURSIVE RulOver(_, _)
RulOver(rows, units) ==
    IF units = <<>> THEN <<>>
    ELSE UnitRul(rows, Head(units)) \o RulOver(rows, Tail(units))

RulData(rows) == RulOver(rows, Unique(rows))

\* df['RUL'] = rul_data: position-wise; pandas raises ValueError on a length mismatch.
AssignOk(rows, rul_data) == Len(rul_data) = Len(rows)

AssignRul(rows, rul_data) ==
    [i \in 1 .. Len(rows) |->
        [unit_id |-> rows[i].unit_id, time_cycle |-> rows[i].time_cycle,
         degradation_factor |-> rows[i].degradation_factor,
         sensor_ulps |-> rows[i].sensor_ulps, RUL |-> rul_data[i]]]

\* to_csv writes an integer as its decimal digits and a float as its shortest
\* repr; pd.read_csv reads the integers back exactly and parses a float with its
\* default converter, which is not the round-trip one: a value of 17 significant
\* digits can come back one unit in the last place off. k is the reading whose
\* sensor text is parsed that way (0: every value comes back as written).
ReadCsv(rows, k) ==
    [i \in 1 .. Len(rows) |->
        IF i = k THEN [rows[i] EXCEPT !.sensor_ulps = @ + 1] ELSE rows[i]]

\* The outcomes of one read of the file: every value exact, or one of the first
\* MaxInexact readings inexact.
InexactReadings(rows) ==
    0 .. (IF Len(rows) < MaxInexact THEN Len(rows) ELSE MaxInexact)

\* The generator before its first call, with the parameters and the stream chosen.
GenStart ==
    /\ \E p \in GenParams :
        /\ num_engines = p[1]
        /\ min_cycles = p[2]
        /\ max_cycles = p[3]
    /\ stream \in [1 .. NumUnits -> RawValues]
    /\ rng_pos = 0
    /\ pc = "idle"
    /\ calls = 0
    /\ unit_id = 0
    /\ cycles = 0
    /\ cycle = 0
    /\ train_data = <<>>
    /\ nasa_train_df = NoDF
    /\ csv_file = NoFile

\* A fresh AeroPredictSystem on the same data_dir calls create_nasa_sample_data
\* and finds the CSV: it loads it and returns.
LoadExisting ==
    /\ UNCHANGED storeVars
    /\ pc \in {"idle", "done", "failed"}
    /\ calls < MaxCalls
    /\ csv_file.present
    /\ calls' = calls + 1
    /\ \E k \in InexactReadings(csv_file.rows) :
        nasa_train_df' = DataFrame(ReadCsv(csv_file.rows, k))
    /\ pc' = "done"
    /\ UNCHANGED <<num_engines, min_cycles, max_cycles, stream, rng_pos, unit_id,
                   cycles, cycle, train_data, csv_file>>

\* No CSV: np.random.seed(42); train_data = []; enter the loop over the units.
StartGeneration ==
    /\ UNCHANGED storeVars
    /\ pc \in {"idle", "done", "failed"}
    /\ calls < MaxCalls
    /\ ~csv_file.present
    /\ calls' = calls + 1
    /\ nasa_train_df' = NoDF
    /\ rng_pos' = 0
    /\ train_data' = <<>>
    /\ unit_id' = 1
    /\ cycles' = 0
    /\ cycle' = 0
    /\ pc' = "unit"
    /\ UNCHANGED <<num_engines, min_cycles, max_cycles, stream, csv_file>>

\* for unit_id in range(1, U + 1): cycles = np.random.randint(min, max)
DrawLifespan ==
    /\ UNCHANGED storeVars
    /\ pc = "unit"
    /\ unit_id <= num_engines
    /\ RandIntOk(min_cycles, max_cycles)
    /\ rng_pos' = rng_pos + 1
    /\ cycles' = RandInt(min_cycles, max_cycles, stream[rng_pos + 1])
    /\ cycle' = 1
    /\ pc' = "rows"
    /\ UNCHANGED <<num_engines, min_cycles, max_cycles, stream, calls, unit_id,
                   train_data, nasa_train_df, csv_file>>

\* The draw raises ValueError (low >= high): the call ends with the exception.
DrawFails ==
    /\ UNCHANGED storeVars
    /\ pc = "unit"
    /\ unit_id <= num_engines
    /\ ~RandIntOk(min_cycles, max_cycles)
    /\ pc' = "failed"
    /\ UNCHANGED <<num_engines, min_cycles, max_cycles, stream, rng_pos, calls,
                   unit_id, cycles, cycle, train_data, nasa_train_df, csv_file>>

\* for cycle in range(1, cycles + 1): train_data.append(row)
AppendRow ==
    /\ UNCHANGED storeVars
    /\ pc = "rows"
    /\ cycle <= cycles
    /\ train_data' = Append(train_data, Row(unit_id, cycle, cycles))
    /\ cycle' = cycle + 1
    /\ UNCHANGED <<num_engines, min_cycles, max_cycles, stream, rng_pos, pc, calls,
                   unit_id, cycles, nasa_train_df, csv_file>>

\* The inner loop is exhausted: next unit.
NextUnit ==
    /\ UNCHANGED storeVars
    /\ pc = "rows"
    /\ cycle > cycles
    /\ unit_id' = unit_id + 1
    /\ pc' = "unit"
    /\ UNCHANGED <<num_engines, min_cycles, max_cycles, stream, rng_pos, calls,
                   cycles, cycle, train_data, nasa_train_df, csv_file>>

\* The outer loop is exhausted: build the DataFrame, run the RUL pass, assign the column.
ComputeRul ==
    /\ UNCHANGED storeVars
    /\ pc = "unit"
    /\ unit_id > num_engines
    /\ LET rul_data == RulData(train_data)
       IN IF AssignOk(train_data, rul_data)
          THEN /\ nasa_train_df' = DataFrame(AssignRul(train_data, rul_data))
               /\ pc' = "save"
          ELSE /\ nasa_train_df' = DataFrame(train_data)
               /\ pc' = "failed"
    /\ UNCHANGED <<num_engines, min_cycles, max_cycles, stream, rng_pos, calls,
                   unit_id, cycles, cycle, train_data, csv_file>>

\* to_csv succeeds: the file holds the table.
SaveCsv ==
    /\ UNCHANGED storeVars
    /\ pc = "save"
    /\ csv_file' = [present |-> TRUE, rows |-> nasa_train_df.rows]
    /\ pc' = "done"
    /\ UNCHANGED <<num_engines, min_cycles, max_cycles, stream, rng_pos, calls,
                   unit_id, cycles, cycle, train_data, nasa_train_df>>

\* to_csv raises: a warning is printed and the in-memory table is kept.
SaveCsvFails ==
    /\ UNCHANGED storeVars
    /\ pc = "save"
    /\ pc' = "done"
    /\ UNCHANGED <<num_engines, min_cycles, max_cycles, stream, rng_pos, calls,
                   unit_id, cycles, cycle, train_data, nasa_train_df, csv_file>>

\* The lifespan the seeded generator gives unit u: the u-th draw after seed(42).
Lifespan(u) == RandInt(min_cycles, max_cycles, stream[u])

NextGen ==
    \/ LoadExisting
    \/ StartGeneration
    \/ DrawLifespan
    \/ DrawFails
    \/ AppendRow
    \/ NextUnit
    \/ ComputeRul
    \/ SaveCsv
    \/ SaveCsvFails


\* ----------------------------------------------------------------- store
\* Identifiers are kept as sequences of string pieces, so that formatting a number
\* into an identifier and taking a prefix are what they are on text.
Digit(d) == <<"0", "1", "2", "3", "4", "5", "6", "7", "8", "9">>[d + 1]

\* f"{n:03d}" for 0 <= n <= 999
Fmt03d(n) == <<Digit(n \div 100), Digit((n \div 10) % 10), Digit(n % 10)>>

\* f"A320-{n:03d}"
A320Id(n) == <<"A320-">> \o Fmt03d(n)

\* the literal "B737-001"
B737Id == <<"B737-", "0", "0", "1">>

\* f"{aircraft_id}-E{engine_num}-TURB"
ComponentId(aircraft_id, engine_num) == aircraft_id \o <<"-E", Digit(engine_num), "-TURB">>

\* SQL NULL / Python None, and a value that is present.
Null == <<>>
Val(v) == <<v>>

\* The five suppliers add_supply_chain_data inserts; rating in tenths, reliability in
\* hundredths.
SupplierRows ==
    << [supplier_id |-> "SUP-001", name |-> "GE Aviation Parts", location |-> "Cincinnati, OH",
        rating |-> 48, avg_delivery_days |-> 5, reliability_score |-> 98],
       [supplier_id |-> "SUP-002", name |-> "Pratt & Whitney Supply", location |-> "Hartford, CT",
        rating |-> 47, avg_delivery_days |-> 6, reliability_score |-> 96],
       [supplier_id |-> "SUP-003", name |-> "Rolls-Royce Components", location |-> "Derby, UK",
        rating |-> 49, avg_delivery_days |-> 7, reliability_score |-> 99],
       [supplier_id |-> "SUP-004", name |-> "AAR Corp", location |-> "Wood Dale, IL",
        rating |-> 45, avg_delivery_days |-> 4, reliability_score |-> 94],
       [supplier_id |-> "SUP-005", name |-> "Honeywell Aerospace", location |-> "Phoenix, AZ",
        rating |-> 46, avg_delivery_days |-> 5, reliability_score |-> 95] >>

\* The eight parts of the catalog (part_number, standard_price; the other columns
\* are read by nothing).
PartRows ==
    << [part_number |-> "HPT-8472-A", standard_price |-> 4200],
       [part_number |-> "FAN-3392-B", standard_price |-> 8500],
       [part_number |-> "BEAR-7721-C", standard_price |-> 3200],
       [part_number |-> "SEAL-4432-D", standard_price |-> 850],
       [part_number |-> "FUEL-8821-E", standard_price |-> 1200],
       [part_number |-> "IGN-2234-F", standard_price |-> 2800],
       [part_number |-> "COMP-5543-G", standard_price |-> 5200],
       [part_number |-> "COOL-6654-H", standard_price |-> 1800] >>

\* parts = [...]: the rows add_supply_chain_data works with.
Parts == SubSeq(PartRows, 1, NumParts)

\* The five aircraft of the fleet (aircraft_id; the other columns are read by nothing).
AircraftRows ==
    << [aircraft_id |-> <<"A320-", "0", "0", "1">>],
       [aircraft_id |-> <<"A320-", "0", "0", "2">>],
       [aircraft_id |-> <<"A320-", "0", "0", "3">>],
       [aircraft_id |-> <<"A320-", "0", "0", "4">>],
       [aircraft_id |-> <<"B737-", "0", "0", "1">>] >>

\* The next value of an AUTOINCREMENT key.
NextId(table) ==
    IF table = <<>> THEN 1
    ELSE 1 + CHOOSE m \in {table[i].id : i \in 1 .. Len(table)} :
                \A i \in 1 .. Len(table) : table[i].id <= m

\* executemany of INSERT into a table whose only key is its AUTOINCREMENT id. With
\* OR IGNORE it is the same: a generated id never conflicts.
RECURSIVE Insert(_, _)
Insert(table, rows) ==
    IF rows = <<>> THEN table
    ELSE Insert(Append(table, [id |-> NextId(table)] @@ Head(rows)), Tail(rows))

\* executemany of INSERT OR IGNORE into a table with a PRIMARY KEY or UNIQUE column:
\* a row whose key column holds a value that is present is skipped.
RECURSIVE InsertOrIgnore(_, _, _)
InsertOrIgnore(table, rows, key) ==
    IF rows = <<>> THEN table
    ELSE LET r == Head(rows)
             present == \E i \in 1 .. Len(table) : table[i][key] = r[key]
         IN InsertOrIgnore(IF present THEN table ELSE Append(table, r), Tail(rows), key)

\* Mutant: INSERT OR IGNORE, which keeps the row of the first run.
InsertOrIgnoreRow(table, row) ==
    IF \E i \in 1 .. Len(table) : table[i].period = row.period THEN table
    ELSE Append(table, row)

\* INSERT OR REPLACE INTO cost_analytics: the row of the same period is deleted and
\* the new row inserted.
InsertOrReplace(table, row) ==
    SelectSeq(table, LAMBDA r : r.period # row.period) \o <<row>>

\* np.random.uniform(0.95, 1.05), in percent: a value of [95, 105).
PriceVariation(raw) == 95 + (raw % 10)

\* Mutant: the inner loop stops before the last part of the list.
SupplierPartsDataButLast(d) ==
    [k \in 1 .. (Len(SupplierRows) * (Len(Parts) - 1)) |->
        LET s == SupplierRows[((k - 1) \div (Len(Parts) - 1)) + 1]
            p == Parts[((k - 1) % (Len(Parts) - 1)) + 1]
        IN [supplier_id |-> s.supplier_id,
            part_number |-> p.part_number,
            unit_price |-> p.standard_price * PriceVariation(k * d),
            min_quantity |-> 1,
            delivery_days |-> s.avg_delivery_days + RandInt(-1, 2, k + d)]]

\* The offers one run of add_supply_chain_data builds, supplier by supplier and part by
\* part; d selects the outcome of the random draws. unit_price is in hundredths.
SupplierPartsData(d) ==
    [k \in 1 .. (Len(SupplierRows) * Len(Parts)) |->
        LET s == SupplierRows[((k - 1) \div Len(Parts)) + 1]
            p == Parts[((k - 1) % Len(Parts)) + 1]
        IN [supplier_id |-> s.supplier_id,
            part_number |-> p.part_number,
            unit_price |-> p.standard_price * PriceVariation(k * d),
            min_quantity |-> 1,
            delivery_days |-> s.avg_delivery_days + RandInt(-1, 2, k + d)]]

\* Mutant: two engines per aircraft, the engines an A320 or a 737 has.
ComponentsTwinEngine ==
    [k \in 1 .. (Len(AircraftRows) * 2) |->
        LET a == AircraftRows[((k - 1) \div 2) + 1]
            engine_num == ((k - 1) % 2) + 1
        IN [component_id |-> ComponentId(a.aircraft_id, engine_num),
            aircraft_id |-> a.aircraft_id,
            engine_number |-> engine_num,
            part_number |-> "HPT-8472-A"]]

\* The components one run builds: four engines per aircraft (health, risk and rul
\* are random and read by nothing).
Components ==
    [k \in 1 .. (Len(AircraftRows) * 4) |->
        LET a == AircraftRows[((k - 1) \div 4) + 1]
            engine_num == ((k - 1) % 4) + 1
        IN [component_id |-> ComponentId(a.aircraft_id, engine_num),
            aircraft_id |-> a.aircraft_id,
            engine_number |-> engine_num,
            part_number |-> "HPT-8472-A"]]

\* The PRIMARY KEY or UNIQUE column of each table.
SupplierKey == "supplier_id"
PartKey == "part_number"
AircraftKey == "aircraft_id"
ComponentKey == "component_id"

\* parts_catalog has an AUTOINCREMENT part_id next to the UNIQUE part_number.
RECURSIVE InsertParts(_, _)
InsertParts(table, rows) ==
    IF rows = <<>> THEN table
    ELSE LET r == Head(rows)
             present == \E i \in 1 .. Len(table) : table[i][PartKey] = r[PartKey]
         IN InsertParts(IF present THEN table
                        ELSE Append(table, [id |-> NextId(table)] @@ r), Tail(rows))

\* The 12 predictive and 3 reactive records of one run; a date is a day number
\* (strftime("%Y-%m-%d") keeps the day of now - timedelta(days)).
\* Mutant: the component's aircraft number is taken with the engine's modulus.
PredictiveRecordEngineIndex(i, now) ==
    [aircraft_id |-> A320Id((i % 3) + 1),
     component_id |-> A320Id((i % 4) + 1) \o <<"-E", Digit((i % 4) + 1), "-TURB">>,
     maintenance_type |-> "Predictive",
     date_performed |-> now - i * 7,
     labor_cost |-> PredictiveLabor,
     parts_cost |-> PredictiveParts,
     total_cost |-> PredictiveTotal,
     downtime_hours |-> PredictiveDowntime,
     is_predictive |-> 1]

PredictiveRecord(i, now) ==
    [aircraft_id |-> A320Id((i % 3) + 1),
     component_id |-> A320Id((i % 3) + 1) \o <<"-E", Digit((i % 4) + 1), "-TURB">>,
     maintenance_type |-> "Predictive",
     date_performed |-> now - i * 7,
     labor_cost |-> PredictiveLabor,
     parts_cost |-> PredictiveParts,
     total_cost |-> PredictiveTotal,
     downtime_hours |-> PredictiveDowntime,
     is_predictive |-> 1]

\* Mutant: the flag copied from the predictive record.
ReactiveRecordFlagTrue(i, now) ==
    [aircraft_id |-> B737Id,
     component_id |-> B737Id \o <<"-E", Digit((i % 4) + 1), "-TURB">>,
     maintenance_type |-> "Reactive",
     date_performed |-> now - i * 30,
     labor_cost |-> ReactiveLabor,
     parts_cost |-> ReactiveParts,
     total_cost |-> ReactiveTotal,
     downtime_hours |-> ReactiveDowntime,
     is_predictive |-> 1]

ReactiveRecord(i, now) ==
    [aircraft_id |-> B737Id,
     component_id |-> B737Id \o <<"-E", Digit((i % 4) + 1), "-TURB">>,
     maintenance_type |-> "Reactive",
     date_performed |-> now - i * 30,
     labor_cost |-> ReactiveLabor,
     parts_cost |-> ReactiveParts,
     total_cost |-> ReactiveTotal,
     downtime_hours |-> ReactiveDowntime,
     is_predictive |-> 0]

MaintenanceRecords(now) ==
    [k \in 1 .. PredictiveEvents |-> PredictiveRecord(k - 1, now)]
        \o [k \in 1 .. ReactiveEvents |-> ReactiveRecord(k - 1, now)]

\* SUM(...) of SQL over the rows of a table: NULL over no rows.
RECURSIVE SeqSum(_)
SeqSum(vals) == IF vals = <<>> THEN 0 ELSE Head(vals) + SeqSum(Tail(vals))

SqlSum(vals) == IF vals = <<>> THEN Null ELSE Val(SeqSum(vals))

\* SUM(CASE WHEN is_predictive = flag THEN 1 ELSE 0 END)
CountCase(events, flag) ==
    SqlSum([i \in 1 .. Len(events) |-> IF events[i].is_predictive = flag THEN 1 ELSE 0])

\* SUM(CASE WHEN is_predictive = flag THEN column ELSE 0 END)
SumCase(events, flag, column) ==
    SqlSum([i \in 1 .. Len(events) |->
                IF events[i].is_predictive = flag THEN events[i][column] ELSE 0])

\* The aggregation query over maintenance_history and cursor.fetchone().
AggregateQuery(events) ==
    [total_events |-> Len(events),
     pred_count |-> CountCase(events, 1),
     react_count |-> CountCase(events, 0),
     pred_cost |-> SumCase(events, 1, "total_cost"),
     react_cost |-> SumCase(events, 0, "total_cost"),
     pred_downtime |-> SumCase(events, 1, "downtime_hours"),
     react_downtime |-> SumCase(events, 0, "downtime_hours")]

\* pred_count * 52000 and the subtractions raise TypeError on None.
DeriveOk(result) ==
    result.pred_count # Null /\ result.pred_cost # Null /\ result.pred_downtime # Null

\* Mutant: the counterfactual is taken over all events, as the comment above the
\* derivation words it (total_events * 52000).
AvoidedReactiveCostAllEvents(result) == result.total_events * AvoidedCostPerEvent

\* avoided_reactive_cost = pred_count * 52000
AvoidedReactiveCost(result) == result.pred_count[1] * AvoidedCostPerEvent

\* Mutant: the downtime subtracted is that of the reactive events.
AnalyticsRowReactiveDowntime(result) ==
    [period |-> "2024-Q4",
     total_maintenance_events |-> result.total_events,
     predictive_maintenance_count |-> result.pred_count[1],
     reactive_maintenance_count |-> result.react_count[1],
     total_cost_predictive |-> result.pred_cost[1],
     total_cost_reactive |-> result.react_cost[1],
     total_savings |-> AvoidedReactiveCost(result) - result.pred_cost[1],
     downtime_hours_saved |->
        (result.pred_count[1] * AvoidedDowntimePerEvent) - result.react_downtime[1],
     flights_cancelled_avoided |-> result.pred_count[1] * CancellationsPerEvent]

\* The derivation of the savings and the row handed to INSERT OR REPLACE.
AnalyticsRow(result) ==
    [period |-> "2024-Q4",
     total_maintenance_events |-> result.total_events,
     predictive_maintenance_count |-> result.pred_count[1],
     reactive_maintenance_count |-> result.react_count[1],
     total_cost_predictive |-> result.pred_cost[1],
     total_cost_reactive |-> result.react_cost[1],
     total_savings |-> AvoidedReactiveCost(result) - result.pred_cost[1],
     downtime_hours_saved |->
        (result.pred_count[1] * AvoidedDowntimePerEvent) - result.pred_downtime[1],
     flights_cancelled_avoided |-> result.pred_count[1] * CancellationsPerEvent]

\* Mutant: the rating term is left out of the ORDER BY expression.
ScoreNoRating(sp, s) == sp.unit_price * 4 + sp.delivery_days * 30000

\* TOTAL_REACTIVE_COST of config.py
TOTAL_REACTIVE_COST ==
    REACTIVE_LABOR_COST + REACTIVE_PARTS_COST
        + (REACTIVE_FLIGHT_CANCELLATIONS * COST_PER_CANCELLATION)

\* The ORDER BY expression of find_best_supplier, times 1000:
\* unit_price * 0.4 + delivery_days * 100 * 0.3 + (5 - rating) * 500 * 0.3
Score(sp, s) == sp.unit_price * 4 + sp.delivery_days * 30000 + (50 - s.rating) * 15000

\* Mutant: the WHERE clause is left out of the join.
JoinedOffersAnyPart(part_number) ==
    UNION {{<<i, j>> : j \in {k \in 1 .. Len(suppliers) :
                                suppliers[k].supplier_id = supplier_parts[i].supplier_id}} :
            i \in 1 .. Len(supplier_parts)}

\* supplier_parts sp JOIN suppliers s ON sp.supplier_id = s.supplier_id
\* WHERE sp.part_number = ?: the pairs <<row of sp, row of s>> of the join.
JoinedOffers(part_number) ==
    UNION {{<<i, j>> : j \in {k \in 1 .. Len(suppliers) :
                                suppliers[k].supplier_id = supplier_parts[i].supplier_id}} :
            i \in {k \in 1 .. Len(supplier_parts) :
                        supplier_parts[k].part_number = part_number}}

\* Mutant: ORDER BY score DESC.
FirstRowsDesc(part_number) ==
    LET joined == JoinedOffers(part_number)
    IN {x \in joined :
            \A y \in joined :
                Score(supplier_parts[x[1]], suppliers[x[2]])
                    >= Score(supplier_parts[y[1]], suppliers[y[2]])}

\* ORDER BY score ASC LIMIT 1: a pair no other pair of the join scores below. SQL
\* leaves the order of equal keys open, so every such pair is a possible first row.
FirstRows(part_number) ==
    LET joined == JoinedOffers(part_number)
    IN {x \in joined :
            \A y \in joined :
                Score(supplier_parts[x[1]], suppliers[x[2]])
                    <= Score(supplier_parts[y[1]], suppliers[y[2]])}

\* The dict find_best_supplier builds of the first row.
BestDict(sp, s) ==
    [supplier |-> s.name, location |-> s.location, rating |-> s.rating,
     price |-> sp.unit_price, delivery_days |-> sp.delivery_days,
     reliability |-> s.reliability_score]

\* Mutant: the two cost columns are read in the other order.
CalculatorDictCostsSwapped(r) ==
    [period |-> r.period,
     total_events |-> r.total_maintenance_events,
     predictive_count |-> r.predictive_maintenance_count,
     reactive_count |-> r.reactive_maintenance_count,
     predictive_cost |-> r.total_cost_reactive,
     reactive_cost |-> r.total_cost_predictive,
     total_savings |-> r.total_savings,
     downtime_saved |-> r.downtime_hours_saved,
     flights_saved |-> r.flights_cancelled_avoided]

\* The dict get_cost_calculator_data builds of the analytics row.
CalculatorDict(r) ==
    [period |-> r.period,
     total_events |-> r.total_maintenance_events,
     predictive_count |-> r.predictive_maintenance_count,
     reactive_count |-> r.reactive_maintenance_count,
     predictive_cost |-> r.total_cost_predictive,
     reactive_cost |-> r.total_cost_reactive,
     total_savings |-> r.total_savings,
     downtime_saved |-> r.downtime_hours_saved,
     flights_saved |-> r.flights_cancelled_avoided]

\* The outcomes of the random draws of one add_supply_chain_data run that are explored.
DrawPatterns == {1, 2}

\* The day numbers datetime.now() gives a run of generate_cost_analytics.
Days == {0, 1}

NoCall == [call |-> "none", arg |-> "", value |-> Null]

\* The part numbers find_best_supplier is asked for: the catalog and one outside it.
QueryParts == {Parts[i].part_number : i \in 1 .. Len(Parts)} \cup {"NONE-0000-X"}

\* create_database: sqlite3.connect and CREATE TABLE IF NOT EXISTS for every table;
\* a table that does not exist and an empty one are the same here.
CreateDatabase ==
    /\ conn' = "open"
    /\ UNCHANGED <<tables, ret>>
    /\ UNCHANGED genVars

\* add_supply_chain_data, with draw outcome d, and its commit.
AddSupplyChainData ==
    /\ conn = "open"
    /\ Len(supplier_parts) + Len(SupplierRows) * Len(Parts)
            <= MaxRuns * Len(SupplierRows) * Len(Parts)
    /\ \E d \in DrawPatterns :
        supplier_parts' = Insert(supplier_parts, SupplierPartsData(d))
    /\ suppliers' = InsertOrIgnore(suppliers, SupplierRows, SupplierKey)
    /\ parts_catalog' = InsertParts(parts_catalog, Parts)
    /\ aircraft' = InsertOrIgnore(aircraft, AircraftRows, AircraftKey)
    /\ engine_components' = InsertOrIgnore(engine_components, Components, ComponentKey)
    /\ UNCHANGED <<conn, nasa_sensor_data, maintenance_history, cost_analytics, ret>>
    /\ UNCHANGED genVars

\* generate_cost_analytics on day now: insert the records, aggregate the whole table, derive the
\* savings, replace the row of the period, commit. A TypeError in the derivation
\* leaves the inserted records in the open transaction and writes no row.
GenerateCostAnalytics ==
    /\ conn = "open"
    /\ Len(maintenance_history) + PredictiveEvents + ReactiveEvents
            <= MaxRuns * (PredictiveEvents + ReactiveEvents) + MaxPriorEvents
    /\ \E now \in Days :
        LET history == Insert(maintenance_history, MaintenanceRecords(now))
            result == AggregateQuery(history)
        IN /\ maintenance_history' = history
           /\ cost_analytics' = IF DeriveOk(result)
                                THEN InsertOrReplace(cost_analytics, AnalyticsRow(result))
                                ELSE cost_analytics
    /\ UNCHANGED <<conn, nasa_sensor_data, suppliers, parts_catalog, supplier_parts,
                   aircraft, engine_components, ret>>
    /\ UNCHANGED genVars

\* get_cost_calculator_data: the row of period '2024-Q4' as a dict, or None.
GetCostCalculatorData ==
    /\ conn = "open"
    /\ LET found == {i \in 1 .. Len(cost_analytics) : cost_analytics[i].period = "2024-Q4"}
       IN IF found = {}
          THEN ret' = [call |-> "get_cost_calculator_data", arg |-> "", value |-> Null]
          ELSE \E i \in found :
                ret' = [call |-> "get_cost_calculator_data", arg |-> "",
                        value |-> Val(CalculatorDict(cost_analytics[i]))]
    /\ UNCHANGED <<conn, tables>>
    /\ UNCHANGED genVars

\* find_best_supplier(part_number): the first row of the ordered join as a dict, or None.
FindBestSupplier ==
    /\ conn = "open"
    /\ \E part_number \in QueryParts :
        LET first == FirstRows(part_number)
        IN IF first = {}
           THEN ret' = [call |-> "find_best_supplier", arg |-> part_number, value |-> Null]
           ELSE \E x \in first :
                ret' = [call |-> "find_best_supplier", arg |-> part_number,
                        value |-> Val(BestDict(supplier_parts[x[1]], suppliers[x[2]]))]
    /\ UNCHANGED <<conn, tables>>
    /\ UNCHANGED genVars

\* close
Close ==
    /\ conn # "none"
    /\ conn' = "closed"
    /\ UNCHANGED <<tables, ret>>
    /\ UNCHANGED genVars

\* ---------------------------------------------------------- specifications
\* The generator before its first call, for the specifications of the store.
GenIdle ==
    /\ num_engines = NumUnits
    /\ min_cycles = MinCycles
    /\ max_cycles = MaxCycles
    /\ stream = [u \in 1 .. NumUnits |-> 0]
    /\ rng_pos = 0
    /\ pc = "idle"
    /\ calls = 0
    /\ unit_id = 0
    /\ cycles = 0
    /\ cycle = 0
    /\ train_data = <<>>
    /\ nasa_train_df = NoDF
    /\ csv_file = NoFile

\* No database file, no connection.
StoreFresh ==
    /\ conn = "none"
    /\ nasa_sensor_data = <<>>
    /\ suppliers = <<>>
    /\ parts_catalog = <<>>
    /\ supplier_parts = <<>>
    /\ aircraft = <<>>
    /\ engine_components = <<>>
    /\ maintenance_history = <<>>
    /\ cost_analytics = <<>>
    /\ ret = NoCall

\* The generator alone.
InitGen == GenStart /\ StoreFresh

SpecGen == InitGen /\ [][NextGen]_vars

\* The store from a fresh database file, its methods called in any order.
Init == GenIdle /\ StoreFresh

Next ==
    \/ CreateDatabase
    \/ AddSupplyChainData
    \/ GenerateCostAnalytics
    \/ GetCostCalculatorData
    \/ FindBestSupplier
    \/ Close

Spec == Init /\ [][Next]_vars

\* A maintenance event some earlier writer left in the database file.
PriorEvent(flag, total) ==
    [aircraft_id |-> B737Id,
     component_id |-> ComponentId(B737Id, 1),
     maintenance_type |-> IF flag = 1 THEN "Predictive" ELSE "Reactive",
     date_performed |-> 0,
     labor_cost |-> total - 1000,
     parts_cost |-> 1000,
     total_cost |-> total,
     downtime_hours |-> total \div 1000,
     is_predictive |-> flag]

PriorEventKinds == {PriorEvent(flag, total) : flag \in {0, 1}, total \in {6500, 9000}}

\* The aggregator over every content of maintenance_history: an open database whose
\* maintenance_history holds up to MaxPriorEvents events of any kind.
InitAgg ==
    /\ GenIdle
    /\ conn = "open"
    /\ nasa_sensor_data = <<>>
    /\ suppliers = <<>>
    /\ parts_catalog = <<>>
    /\ supplier_parts = <<>>
    /\ aircraft = <<>>
    /\ engine_components = <<>>
    /\ \E n \in 0 .. MaxPriorEvents : \E prior \in [1 .. n -> PriorEventKinds] :
        maintenance_history = Insert(<<>>, prior)
    /\ cost_analytics = <<>>
    /\ ret = NoCall

NextAgg ==
    \/ GenerateCostAnalytics
    \/ GetCostCalculatorData

SpecAgg == InitAgg /\ [][NextAgg]_vars

\* The events the aggregation is applied to: those an earlier writer left and those
\* the synthesizer writes.
ReduceEventKinds == PriorEventKinds \cup {PredictiveRecord(0, 0), ReactiveRecord(0, 0)}

\* The aggregation and derivation of generate_cost_analytics as a function of the
\* content of maintenance_history: any content of up to MaxPriorEvents events, none
\* included.
InitReduce ==
    /\ GenIdle
    /\ conn = "open"
    /\ nasa_sensor_data = <<>>
    /\ suppliers = <<>>
    /\ parts_catalog = <<>>
    /\ supplier_parts = <<>>
    /\ aircraft = <<>>
    /\ engine_components = <<>>
    /\ \E n \in 0 .. MaxPriorEvents : \E events \in [1 .. n -> ReduceEventKinds] :
        maintenance_history = Insert(<<>>, events)
    /\ cost_analytics = <<>>
    /\ ret = NoCall

\* The second half of generate_cost_analytics: the aggregation query over
\* maintenance_history as it is, the derivation, INSERT OR REPLACE and commit. ret
\* records the row written, or None when the derivation raised TypeError.
AggregateHistory ==
    /\ conn = "open"
    /\ LET result == AggregateQuery(maintenance_history)
       IN IF DeriveOk(result)
          THEN /\ cost_analytics' = InsertOrReplace(cost_analytics, AnalyticsRow(result))
               /\ ret' = [call |-> "aggregate", arg |-> "", value |-> Val(AnalyticsRow(result))]
          ELSE /\ cost_analytics' = cost_analytics
               /\ ret' = [call |-> "aggregate", arg |-> "", value |-> Null]
    /\ UNCHANGED <<conn, nasa_sensor_data, suppliers, parts_catalog, supplier_parts,
                   aircraft, engine_components, maintenance_history>>
    /\ UNCHANGED genVars

NextReduce ==
    \/ AggregateHistory
    \/ GetCostCalculatorData

SpecReduce == InitReduce /\ [][NextReduce]_vars

\* An offer of the supplier_parts table; unit_price is in hundredths.
Offer(supplier_id, part_number, unit_price, delivery_days) ==
    [supplier_id |-> supplier_id, part_number |-> part_number, unit_price |-> unit_price,
     min_quantity |-> 1, delivery_days |-> delivery_days]

OfferKinds ==
    {Offer(s, p, u, d) : s \in {"SUP-001", "SUP-003", "SUP-004"},
                          p \in {"HPT-8472-A", "FAN-3392-B"},
                          u \in {400000, 420000},
                          d \in {5, 7}}

\* The ranker over every content of supplier_parts: an open database with the five
\* suppliers and up to MaxOffers offers of any kind.
InitRank ==
    /\ GenIdle
    /\ conn = "open"
    /\ nasa_sensor_data = <<>>
    /\ suppliers = InsertOrIgnore(<<>>, SupplierRows, SupplierKey)
    /\ parts_catalog = InsertParts(<<>>, Parts)
    /\ \E n \in 0 .. MaxOffers : \E offers \in [1 .. n -> OfferKinds] :
        supplier_parts = Insert(<<>>, offers)
    /\ aircraft = <<>>
    /\ engine_components = <<>>
    /\ maintenance_history = <<>>
    /\ cost_analytics = <<>>
    /\ ret = NoCall

NextRank == FindBestSupplier

SpecRank == InitRank /\ [][NextRank]_vars

\* ------------------------------------------------------- setup and report
\* The two loops of create_nasa_sample_data run to their end: the readings of units
\* 1 .. u, each with the lifespan the seeded generator draws for it.
RECURSIVE TrainData(_)
TrainData(u) ==
    IF u = 0 THEN <<>>
    ELSE TrainData(u - 1) \o [c \in 1 .. Lifespan(u) |-> Row(u, c, Lifespan(u))]

\* The table a generating call builds: the readings with the RUL column assigned.
GeneratedTable ==
    AssignRul(TrainData(num_engines), RulData(TrainData(num_engines)))

\* load_nasa_data samples at most this many readings.
SampleSize == 1000

\* sample_data = nasa_train_df.sample(min(1000, len(df)), random_state=42) and the
\* tuples inserted for it. While the table has no more than SampleSize readings the
\* sample is all of them; they are kept here in the table's order, the order of the
\* seeded permutation being read by nothing. temperature, pressure, fan_speed and
\* vibration are sensor columns and carry the table's sensor_ulps.
SampleData(rows) ==
    LET n == IF Len(rows) < SampleSize THEN Len(rows) ELSE SampleSize
    IN [i \in 1 .. n |->
            [unit_id |-> rows[i].unit_id, time_cycle |-> rows[i].time_cycle,
             sensor_ulps |-> rows[i].sensor_ulps, rul |-> rows[i].RUL]]

\* setup(): download_nasa_dataset (create_nasa_sample_data, which loads the dataset
\* file or generates and saves it), create_database, load_nasa_data,
\* add_supply_chain_data and generate_cost_analytics, by a new AeroPredictSystem on
\* the same data_dir and database file. k is the reading read_csv parses inexactly,
\* saved whether to_csv succeeds, d the outcome of the supply-chain draws, now the day.
Setup ==
    /\ RandIntOk(min_cycles, max_cycles)
    /\ Len(maintenance_history) + PredictiveEvents + ReactiveEvents
            <= MaxRuns * (PredictiveEvents + ReactiveEvents) + MaxPriorEvents
    /\ \E k \in InexactReadings(csv_file.rows),
          saved \in (IF csv_file.present THEN {FALSE} ELSE BOOLEAN),
          d \in DrawPatterns, now \in Days :
        LET df == IF csv_file.present THEN ReadCsv(csv_file.rows, k) ELSE GeneratedTable
            history == Insert(maintenance_history, MaintenanceRecords(now))
            result == AggregateQuery(history)
        IN /\ nasa_train_df' = DataFrame(df)
           /\ csv_file' = IF ~csv_file.present /\ saved
                          THEN [present |-> TRUE, rows |-> df]
                          ELSE csv_file
           /\ nasa_sensor_data' = Insert(nasa_sensor_data, SampleData(df))
           /\ supplier_parts' = Insert(supplier_parts, SupplierPartsData(d))
           /\ maintenance_history' = history
           /\ cost_analytics' = IF DeriveOk(result)
                                THEN InsertOrReplace(cost_analytics, AnalyticsRow(result))
                                ELSE cost_analytics
    /\ conn' = "open"
    /\ calls' = calls + 1
    /\ suppliers' = InsertOrIgnore(suppliers, SupplierRows, SupplierKey)
    /\ parts_catalog' = InsertParts(parts_catalog, Parts)
    /\ aircraft' = InsertOrIgnore(aircraft, AircraftRows, AircraftKey)
    /\ engine_components' = InsertOrIgnore(engine_components, Components, ComponentKey)
    /\ UNCHANGED <<num_engines, min_cycles, max_cycles, stream, rng_pos, pc, unit_id,
                   cycles, cycle, train_data, ret>>

\* Mutant: the percentage is taken of the counterfactual cost of all events.
SavingsPctAllEvents(analytics) ==
    <<analytics.total_savings * 100, analytics.total_events * AvoidedCostPerEvent>>

\* savings_pct = (total_savings / (predictive_count * 52000)) * 100, kept as the
\* fraction <<numerator, denominator>>; ZeroDivisionError when the divisor is 0.
SavingsPct(analytics) ==
    <<analytics.total_savings * 100, analytics.predictive_count * AvoidedCostPerEvent>>

\* The fixed figure view_database prints as cost reduction: 87.5 %.
ViewerCostReduction == <<875, 10>>

\* generate_report: the NASA and fleet statistics (formatting MIN(rul) of an empty
\* nasa_sensor_data or SUM(total_flight_hours) of an empty aircraft table raises
\* TypeError), the analytics of get_cost_calculator_data with the cost reduction, and
\* the best supplier of HPT-8472-A. ret records what was printed, or None when the
\* report raised.
GenerateReport ==
    /\ conn = "open"
    /\ LET found == {i \in 1 .. Len(cost_analytics) : cost_analytics[i].period = "2024-Q4"}
           first == FirstRows("HPT-8472-A")
       IN IF \/ nasa_sensor_data = <<>>
             \/ aircraft = <<>>
             \/ \E i \in found : cost_analytics[i].predictive_maintenance_count = 0
          THEN ret' = [call |-> "generate_report", arg |-> "", value |-> Null]
          ELSE \E a \in IF found = {} THEN {Null}
                        ELSE {Val(CalculatorDict(cost_analytics[i])) : i \in found} :
               \E b \in IF first = {} THEN {Null}
                        ELSE {Val(BestDict(supplier_parts[x[1]], suppliers[x[2]])) :
                                x \in first} :
                ret' = [call |-> "generate_report", arg |-> "",
                        value |-> Val([analytics |-> a,
                                       savings_pct |-> IF a = Null THEN Null
                                                       ELSE Val(SavingsPct(a[1])),
                                       best |-> b])]
    /\ UNCHANGED <<conn, tables>>
    /\ UNCHANGED genVars

\* Setup runs against a fresh data_dir and database file, each followed by reports and
\* queries.
InitSetup == GenIdle /\ StoreFresh

NextSetup ==
    \/ Setup
    \/ GenerateReport
    \/ FindBestSupplier
    \/ GetCostCalculatorData

SpecSetup == InitSetup /\ [][NextSetup]_vars

\* ---------------------------------------------------------------- claims
\* C1 (terminal-cycle law): whenever the reading table exists, it holds a reading for
\* every unit u and every cycle c of 1..N_u, the RUL attached to reading (u,c) is
\* N_u - c >= 0, it is 0 exactly at c = N_u, and within a unit it strictly decreases
\* as the cycle increases.
C1_TerminalCycleLaw ==
    nasa_train_df.present =>
        LET rows == nasa_train_df.rows
            idx == 1 .. Len(rows)
        IN /\ \A u \in 1 .. num_engines : \A c \in 1 .. Lifespan(u) :
                \E i \in idx : rows[i].unit_id = u /\ rows[i].time_cycle = c
           /\ \A i \in idx :
                /\ rows[i].RUL = Lifespan(rows[i].unit_id) - rows[i].time_cycle
                /\ rows[i].RUL >= 0
                /\ (rows[i].RUL = 0) <=> (rows[i].time_cycle = Lifespan(rows[i].unit_id))
           /\ \A i, j \in idx :
                (rows[i].unit_id = rows[j].unit_id /\ rows[i].time_cycle < rows[j].time_cycle)
                    => rows[i].RUL > rows[j].RUL

\* C1 witness: a generated table whose units have different lifespans, with a
\* terminal reading and a non-terminal one.
C1_Witness ==
    /\ pc = "done"
    /\ nasa_train_df.present
    /\ \E u, v \in 1 .. num_engines : Lifespan(u) < Lifespan(v)
    /\ \E i, j \in 1 .. Len(nasa_train_df.rows) :
        nasa_train_df.rows[i].RUL = 0 /\ nasa_train_df.rows[j].RUL > 1

\* The rows of cost_analytics for period '2024-Q4'.
Q4Rows == {i \in 1 .. Len(cost_analytics) : cost_analytics[i].period = "2024-Q4"}

\* C2: starting from an empty maintenance history, one run (12 predictive, 3 reactive
\* events) stores the row 15 / 12 / 3 / 78000 / 156000 / 546000 / 504 / 36.
C2_FirstRunRow ==
    Len(maintenance_history) = 15 =>
        cost_analytics =
            << [period |-> "2024-Q4",
                total_maintenance_events |-> 15,
                predictive_maintenance_count |-> 12,
                reactive_maintenance_count |-> 3,
                total_cost_predictive |-> 78000,
                total_cost_reactive |-> 156000,
                total_savings |-> 546000,
                downtime_hours_saved |-> 504,
                flights_cancelled_avoided |-> 36] >>

\* C2 witness: exactly one run has completed on the fresh store.
C2_Witness ==
    /\ Len(maintenance_history) = 15
    /\ Len(cost_analytics) = 1
    /\ \A i \in 1 .. 15 : maintenance_history[i].id = i

\* C3 (as claimed): a run of generate_cost_analytics against a store that already
\* holds the row of an earlier run leaves the row equal in every field.
C3_Idempotent ==
    [][(cost_analytics # <<>> /\ maintenance_history' # maintenance_history)
            => cost_analytics' = cost_analytics]_vars

\* C4: after any number of runs (at least one) cost_analytics holds exactly one row
\* for period '2024-Q4' and no other row, and it is the row of the latest run: its
\* counts are those of the whole history, not those of an earlier run.
C4_SingleRowPerPeriod ==
    maintenance_history # <<>> =>
        /\ Cardinality(Q4Rows) = 1
        /\ Len(cost_analytics) = 1
        /\ \A i \in Q4Rows :
            /\ cost_analytics[i].total_maintenance_events = Len(maintenance_history)
            /\ cost_analytics[i].predictive_maintenance_count
                    + cost_analytics[i].reactive_maintenance_count
                = Len(maintenance_history)

\* C4 witness: a second run has replaced the row of the first.
C4_Witness ==
    /\ Len(maintenance_history) = 30
    /\ Cardinality(Q4Rows) = 1
    /\ cost_analytics[1].total_maintenance_events = 30

\* The events of the history with is_predictive = flag, and sums over them.
EventsWith(flag) ==
    {i \in 1 .. Len(maintenance_history) : maintenance_history[i].is_predictive = flag}

\* The sum of a column over the events of S.
RECURSIVE SumOver(_, _)
SumOver(S, column) ==
    IF S = {} THEN 0
    ELSE LET i == CHOOSE x \in S : TRUE
         IN maintenance_history[i][column] + SumOver(S \ {i}, column)

\* C7 (as claimed): every reactive event's total_cost is labor_cost + parts_cost +
\* 3 cancellations x COST_PER_CANCELLATION, which is Config.TOTAL_REACTIVE_COST, and
\* so is the counterfactual cost per event.
C7_ReactiveTotal ==
    \A i \in EventsWith(0) :
        /\ maintenance_history[i].total_cost
            = maintenance_history[i].labor_cost + maintenance_history[i].parts_cost
                + REACTIVE_FLIGHT_CANCELLATIONS * COST_PER_CANCELLATION
        /\ maintenance_history[i].total_cost = TOTAL_REACTIVE_COST
        /\ AvoidedCostPerEvent = TOTAL_REACTIVE_COST

\* C8: whatever the history holds, the stored row has total_events = number of
\* events, the counts and cost sums of the is_predictive partition, savings =
\* predictive_count * 52000 - predictive_cost, downtime_saved = predictive_count * 48
\* - predictive downtime, flights_saved = predictive_count * 3.
C8_AggregateFields ==
    \A r \in Q4Rows :
        LET row == cost_analytics[r]
            P == Cardinality(EventsWith(1))
        IN /\ row.total_maintenance_events = Len(maintenance_history)
           /\ row.predictive_maintenance_count = P
           /\ row.reactive_maintenance_count = Cardinality(EventsWith(0))
           /\ row.total_cost_predictive = SumOver(EventsWith(1), "total_cost")
           /\ row.total_cost_reactive = SumOver(EventsWith(0), "total_cost")
           /\ row.total_savings = P * 52000 - SumOver(EventsWith(1), "total_cost")
           /\ row.downtime_hours_saved = P * 48 - SumOver(EventsWith(1), "downtime_hours")
           /\ row.flights_cancelled_avoided = P * 3

\* C8 witness: a row computed over a history that holds, next to the run's own
\* events, a predictive and a reactive event of other costs.
C8_Witness ==
    /\ Q4Rows # {}
    /\ \E i \in EventsWith(1) : maintenance_history[i].total_cost = 9000
    /\ \E i \in EventsWith(0) : maintenance_history[i].total_cost = 9000

\* The offers of a part, and the score of the claim (times 1000) of an offer i whose
\* supplier is row j of suppliers.
OffersOf(part_number) ==
    {i \in 1 .. Len(supplier_parts) : supplier_parts[i].part_number = part_number}

SupplierOf(i) ==
    {j \in 1 .. Len(suppliers) : suppliers[j].supplier_id = supplier_parts[i].supplier_id}

ClaimScore(i, j) ==
    (supplier_parts[i].unit_price * 4) + (supplier_parts[i].delivery_days * 100 * 300)
        + ((50 - suppliers[j].rating) * 500 * 30)

\* C5: for a part with offers, find_best_supplier returns the fields of an offer of
\* that part whose score is minimal among the offers of the part; for the offers
\* (4200, 5 days, rating 4.8) and (4000, 7 days, rating 4.5) it returns the first.
C5_BestSupplierMinimal ==
    (ret.call = "find_best_supplier" /\ OffersOf(ret.arg) # {}) =>
        /\ ret.value # Null
        /\ \E i \in OffersOf(ret.arg) : \E j \in SupplierOf(i) :
            /\ ret.value[1].supplier = suppliers[j].name
            /\ ret.value[1].location = suppliers[j].location
            /\ ret.value[1].rating = suppliers[j].rating
            /\ ret.value[1].reliability = suppliers[j].reliability_score
            /\ ret.value[1].price = supplier_parts[i].unit_price
            /\ ret.value[1].delivery_days = supplier_parts[i].delivery_days
            /\ \A k \in OffersOf(ret.arg) : \A l \in SupplierOf(k) :
                ClaimScore(i, j) <= ClaimScore(k, l)
        /\ (/\ Len(supplier_parts) = 2
            /\ supplier_parts[1] = [id |-> 1] @@ Offer("SUP-001", ret.arg, 420000, 5)
            /\ supplier_parts[2] = [id |-> 2] @@ Offer("SUP-004", ret.arg, 400000, 7))
           => (/\ ret.value[1].supplier = "GE Aviation Parts"
               /\ ret.value[1].price = 420000
               /\ ret.value[1].delivery_days = 5
               /\ ret.value[1].rating = 48)

\* C5 witness: the scenario of the claim has been asked and answered.
C5_Witness ==
    /\ ret.call = "find_best_supplier"
    /\ ret.arg = "HPT-8472-A"
    /\ Len(supplier_parts) = 2
    /\ supplier_parts[1] = [id |-> 1] @@ Offer("SUP-001", "HPT-8472-A", 420000, 5)
    /\ supplier_parts[2] = [id |-> 2] @@ Offer("SUP-004", "HPT-8472-A", 400000, 7)
    /\ ret.value # Null

\* C6: asked for a part without offers, find_best_supplier returns None, and no call
\* of it changes the store.
C6_NotFound ==
    /\ []((ret.call = "find_best_supplier" /\ OffersOf(ret.arg) = {}) => ret.value = Null)
    /\ [][ret' # ret => UNCHANGED <<conn, tables>>]_vars

\* C6 witness: None was returned for a part while offers of other parts exist.
C6_Witness ==
    /\ ret.call = "find_best_supplier"
    /\ OffersOf(ret.arg) = {}
    /\ supplier_parts # <<>>
    /\ ret.value = Null

\* C9 (as claimed): with 1 <= min <= max, a drawn lifespan lies in min..max and is
\* >= 1, and every integer of min..max, max included, is a value the draw can give.
C9_UniformInclusiveRange ==
    (pc = "rows" /\ 1 <= min_cycles /\ min_cycles <= max_cycles) =>
        /\ min_cycles <= cycles
        /\ cycles <= max_cycles
        /\ cycles >= 1
        /\ \A n \in min_cycles .. max_cycles :
            \E raw \in RawValues : RandInt(min_cycles, max_cycles, raw) = n

RECURSIVE ReadingsUpTo(_)
ReadingsUpTo(u) ==
    IF u = 0 THEN <<>>
    ELSE ReadingsUpTo(u - 1)
            \o [c \in 1 .. Lifespan(u) |->
                    [unit_id |-> u, time_cycle |-> c,
                     degradation_factor |-> <<c, Lifespan(u)>>,
                     sensor_ulps |-> 0, RUL |-> Lifespan(u) - c]]

\* C11 (as claimed): every call of the generator that ends normally leaves the same
\* reading sequence, element for element: the one the parameters and the seed
\* determine, whether the call generated it or loaded the file an earlier call saved;
\* a loaded table equals the saved one.
C11_Determinism ==
    (pc = "done" /\ nasa_train_df.present) =>
        /\ nasa_train_df.rows = ReadingsUpTo(num_engines)
        /\ csv_file.present => nasa_train_df.rows = csv_file.rows

\* The pools the identifiers of the events are taken from, and the events of run r
\* (0-based) of the history: run r occupies positions 15 r + 1 .. 15 r + 15.
AircraftPool ==
    << <<"A320-", "0", "0", "1">>, <<"A320-", "0", "0", "2">>, <<"A320-", "0", "0", "3">> >>

EnginePool == <<"1", "2", "3", "4">>

RunEvent(r, k) == maintenance_history[(r * 15) + k]

\* C12: every run adds exactly 12 + 3 events, the 12 predictive ones first; with i the
\* 0-based index, predictive event i is dated 7 i days and reactive event i 30 i days
\* before the run's now; the aircraft of predictive event i is pool[i mod 3] (so event
\* i >= 3 repeats the aircraft of event i - 3), a reactive event's is B737-001, and the
\* engine of event i is pool[i mod 4] (so event i >= 4 repeats the engine of event
\* i - 4); every component_id is <aircraft_id>-E<engine>-TURB, so it has the event's
\* aircraft_id as prefix.
C12_EventSynthesis ==
    /\ Len(maintenance_history) % 15 = 0
    /\ \A r \in 0 .. ((Len(maintenance_history) \div 15) - 1) :
        \E now \in Days :
            /\ \A i \in 0 .. 11 :
                LET e == RunEvent(r, i + 1)
                IN /\ e.maintenance_type = "Predictive"
                   /\ e.date_performed = now - (7 * i)
                   /\ e.aircraft_id = AircraftPool[(i % 3) + 1]
                   /\ e.component_id
                        = e.aircraft_id \o <<"-E", EnginePool[(i % 4) + 1], "-TURB">>
                   /\ i >= 3 => e.aircraft_id = RunEvent(r, i - 2).aircraft_id
                   /\ i >= 4 => e.component_id[Len(e.component_id) - 1]
                                    = RunEvent(r, i - 3).component_id[Len(e.component_id) - 1]
            /\ \A i \in 0 .. 2 :
                LET e == RunEvent(r, 12 + i + 1)
                IN /\ e.maintenance_type = "Reactive"
                   /\ e.date_performed = now - (30 * i)
                   /\ e.aircraft_id = <<"B737-", "0", "0", "1">>
                   /\ e.component_id
                        = e.aircraft_id \o <<"-E", EnginePool[(i % 4) + 1], "-TURB">>
    /\ \A k \in 1 .. Len(maintenance_history) :
        LET e == maintenance_history[k]
        IN /\ Len(e.component_id) > Len(e.aircraft_id)
           /\ SubSeq(e.component_id, 1, Len(e.aircraft_id)) = e.aircraft_id

\* C12 witness: two runs on different days have written their events.
C12_Witness ==
    /\ Len(maintenance_history) = 30
    /\ maintenance_history[1].date_performed # maintenance_history[16].date_performed
    /\ maintenance_history[12].date_performed = maintenance_history[1].date_performed - 77

\* The AnalyticsPeriod with every count, cost, savings, downtime and flights field 0.
ZeroedPeriod ==
    [period |-> "2024-Q4",
     total_maintenance_events |-> 0,
     predictive_maintenance_count |-> 0,
     reactive_maintenance_count |-> 0,
     total_cost_predictive |-> 0,
     total_cost_reactive |-> 0,
     total_savings |-> 0,
     downtime_hours_saved |-> 0,
     flights_cancelled_avoided |-> 0]

InvalidParameter ==
    num_engines <= 0 \/ min_cycles <= 0 \/ max_cycles <= 0 \/ max_cycles < min_cycles

RECURSIVE SubHistory(_, _)
SubHistory(S, n) ==
    IF n = 0 THEN <<>>
    ELSE IF n \in S THEN Append(SubHistory(S, n - 1), maintenance_history[n])
         ELSE SubHistory(S, n - 1)

ReversedHistory ==
    [i \in 1 .. Len(maintenance_history) |->
        maintenance_history[Len(maintenance_history) + 1 - i]]

\* What the aggregation and derivation give for a sequence of events: the row, or
\* None when they fail.
AggregateOf(events) ==
    LET result == AggregateQuery(events)
    IN IF DeriveOk(result) THEN Val(AnalyticsRow(result)) ELSE Null

\* The field-wise sum of two AnalyticsPeriods.
AddPeriods(a, b) ==
    [period |-> a.period,
     total_maintenance_events |-> a.total_maintenance_events + b.total_maintenance_events,
     predictive_maintenance_count |->
        a.predictive_maintenance_count + b.predictive_maintenance_count,
     reactive_maintenance_count |->
        a.reactive_maintenance_count + b.reactive_maintenance_count,
     total_cost_predictive |-> a.total_cost_predictive + b.total_cost_predictive,
     total_cost_reactive |-> a.total_cost_reactive + b.total_cost_reactive,
     total_savings |-> a.total_savings + b.total_savings,
     downtime_hours_saved |-> a.downtime_hours_saved + b.downtime_hours_saved,
     flights_cancelled_avoided |-> a.flights_cancelled_avoided + b.flights_cancelled_avoided]

PricierPairs(part_number) ==
    {p \in OffersOf(part_number) \X OffersOf(part_number) :
        /\ supplier_parts[p[1]].delivery_days = supplier_parts[p[2]].delivery_days
        /\ \A k \in SupplierOf(p[1]) : \A l \in SupplierOf(p[2]) :
            suppliers[k].rating = suppliers[l].rating
        /\ supplier_parts[p[1]].unit_price < supplier_parts[p[2]].unit_price}

MinimalOffers(part_number) ==
    {i \in OffersOf(part_number) :
        \A k \in OffersOf(part_number) : \A j \in SupplierOf(i) : \A l \in SupplierOf(k) :
            Score(supplier_parts[i], suppliers[j]) <= Score(supplier_parts[k], suppliers[l])}

FirstInserted(S) == CHOOSE i \in S : \A k \in S : supplier_parts[i].id <= supplier_parts[k].id

OrderedByUnitCycle(rows) ==
    \A i, j \in 1 .. Len(rows) :
        i < j => \/ rows[i].unit_id < rows[j].unit_id
                 \/ /\ rows[i].unit_id = rows[j].unit_id
                    /\ rows[i].time_cycle < rows[j].time_cycle

\* C18: the readings built so far, and the reading table once it exists, are in
\* strictly ascending (unit_id, cycle) order, so no pair occurs twice; the table's unit
\* ids are of 1..U and the cycles of unit u are exactly 1, 2, ..., N_u without a gap.
C18_OrderedReadings ==
    /\ OrderedByUnitCycle(train_data)
    /\ nasa_train_df.present =>
        LET rows == nasa_train_df.rows
        IN /\ OrderedByUnitCycle(rows)
           /\ \A i \in 1 .. Len(rows) :
                /\ rows[i].unit_id \in 1 .. num_engines
                /\ rows[i].time_cycle \in 1 .. Lifespan(rows[i].unit_id)
           /\ \A u \in 1 .. num_engines :
                LET unit_data == UnitData(rows, u)
                IN /\ Len(unit_data) = Lifespan(u)
                   /\ \A k \in 1 .. Len(unit_data) : unit_data[k].time_cycle = k

\* C18 witness: a finished table of all units that is longer than two readings per
\* unit and ends with the last unit.
C18_Witness ==
    /\ pc = "done"
    /\ nasa_train_df.present
    /\ num_engines = NumUnits
    /\ Len(nasa_train_df.rows) > 2 * NumUnits
    /\ nasa_train_df.rows[Len(nasa_train_df.rows)].unit_id = NumUnits
    /\ nasa_train_df.rows[1].unit_id = 1

\* C19: every event of maintenance_history has non-negative labor_cost, parts_cost,
\* total_cost and downtime_hours and is either predictive (is_predictive true, type
\* 'Predictive', total_cost = labor_cost + parts_cost) or reactive (is_predictive
\* false, type 'Reactive', total_cost >= labor_cost + parts_cost).
C19_EventCosts ==
    \A k \in 1 .. Len(maintenance_history) :
        LET e == maintenance_history[k]
        IN /\ e.labor_cost >= 0
           /\ e.parts_cost >= 0
           /\ e.total_cost >= 0
           /\ e.downtime_hours >= 0
           /\ \/ /\ e.is_predictive = 1
                 /\ e.maintenance_type = "Predictive"
                 /\ e.total_cost = e.labor_cost + e.parts_cost
              \/ /\ e.is_predictive = 0
                 /\ e.maintenance_type = "Reactive"
                 /\ e.total_cost >= e.labor_cost + e.parts_cost

\* C19 witness: the store holds predictive and reactive events of a run.
C19_Witness ==
    /\ \E k \in 1 .. Len(maintenance_history) :
        maintenance_history[k].maintenance_type = "Predictive"
    /\ \E k \in 1 .. Len(maintenance_history) :
        /\ maintenance_history[k].maintenance_type = "Reactive"
        /\ maintenance_history[k].total_cost
            > maintenance_history[k].labor_cost + maintenance_history[k].parts_cost

\* Fractions <<numerator, denominator>> with positive denominators: a < b.
FracLess(a, b) == a[1] * b[2] < b[1] * a[2]

\* The degradation factor of every reading built so far is cycle / N_u, and within a
\* unit it strictly increases with the cycle.
DegradationIsProgress ==
    \A i \in 1 .. Len(train_data) :
        LET r == train_data[i]
        IN /\ r.degradation_factor[2] = Lifespan(r.unit_id)
           /\ r.degradation_factor[1] = r.time_cycle
           /\ \A j \in 1 .. Len(train_data) :
                (train_data[j].unit_id = r.unit_id
                    /\ r.time_cycle < train_data[j].time_cycle)
                => FracLess(r.degradation_factor, train_data[j].degradation_factor)

\* C20 (as claimed): the degradation factor is cycle / N_u, strictly increasing with
\* the cycle, 0 at the unit's first cycle and at most 1 at the last.
C20_DegradationFromZero ==
    /\ DegradationIsProgress
    /\ \A i \in 1 .. Len(train_data) :
        /\ train_data[i].time_cycle = 1 => train_data[i].degradation_factor[1] = 0
        /\ train_data[i].degradation_factor[1] <= train_data[i].degradation_factor[2]

\* C20 (amended): the degradation factor is cycle / N_u, strictly increasing with the
\* cycle; it is 1 / N_u, above 0, at the unit's first cycle and exactly 1 at the last.
C20_DegradationProgress ==
    /\ DegradationIsProgress
    /\ \A i \in 1 .. Len(train_data) :
        LET r == train_data[i]
        IN /\ r.degradation_factor[1] > 0
           /\ r.degradation_factor[1] <= r.degradation_factor[2]
           /\ r.time_cycle = 1 =>
                /\ r.degradation_factor[1] = 1
                /\ r.degradation_factor[2] = Lifespan(r.unit_id)
           /\ (r.time_cycle = Lifespan(r.unit_id))
                <=> (r.degradation_factor[1] = r.degradation_factor[2])

\* C20 witness: all readings of a unit of at least three cycles have been built.
C20_Witness ==
    /\ \E i, j \in 1 .. Len(train_data) :
        /\ train_data[i].unit_id = train_data[j].unit_id
        /\ train_data[i].time_cycle = 1
        /\ train_data[j].time_cycle >= 3
        /\ train_data[j].time_cycle = Lifespan(train_data[j].unit_id)

\* C21: after any number of setup runs the divisor predictive_count * 52000 of the
\* stored row is not zero, and a report printed after a setup gives the cost
\* reduction total_savings / (predictive_count * 52000) * 100 as 87.5, the figure
\* view_database prints.
C21_CostReduction ==
    /\ \A r \in Q4Rows : cost_analytics[r].predictive_maintenance_count * 52000 # 0
    /\ (ret.call = "generate_report" /\ maintenance_history # <<>>) =>
        /\ ret.value # Null
        /\ ret.value[1].analytics # Null
        /\ ret.value[1].savings_pct # Null
        /\ ret.value[1].savings_pct[1][2] # 0
        /\ ret.value[1].savings_pct[1][1] * ViewerCostReduction[2]
            = ViewerCostReduction[1] * ret.value[1].savings_pct[1][2]

\* C21 witness: a report printed after the second setup, over 30 events.
C21_Witness ==
    /\ ret.call = "generate_report"
    /\ ret.value # Null
    /\ ret.value[1].analytics # Null
    /\ ret.value[1].analytics[1].total_events = 30
    /\ ret.value[1].analytics[1].predictive_count = 24

\* C22: re-running add_supply_chain_data adds no offers: supplier_parts holds at most
\* one offer per (supplier_id, part_number) pair, that is at most one per supplier
\* and catalog part, as suppliers, parts_catalog, aircraft and engine_components
\* hold one row per key.
C22_OneOfferPerPair ==
    /\ \A i, j \in 1 .. Len(supplier_parts) :
        (/\ supplier_parts[i].supplier_id = supplier_parts[j].supplier_id
         /\ supplier_parts[i].part_number = supplier_parts[j].part_number) => i = j
    /\ Len(supplier_parts) <= Len(SupplierRows) * Len(Parts)
    /\ \A i, j \in 1 .. Len(suppliers) :
        suppliers[i].supplier_id = suppliers[j].supplier_id => i = j
    /\ \A i, j \in 1 .. Len(parts_catalog) :
        parts_catalog[i].part_number = parts_catalog[j].part_number => i = j
    /\ \A i, j \in 1 .. Len(aircraft) :
        aircraft[i].aircraft_id = aircraft[j].aircraft_id => i = j
    /\ \A i, j \in 1 .. Len(engine_components) :
        engine_components[i].component_id = engine_components[j].component_id => i = j

\* C23: after setup every maintenance event refers to existing records: its
\* aircraft_id is a row of aircraft, and its component_id is a row of
\* engine_components that belongs to the same aircraft.
C23_EventsReferToFleet ==
    \A e \in 1 .. Len(maintenance_history) :
        /\ \E a \in 1 .. Len(aircraft) :
            aircraft[a].aircraft_id = maintenance_history[e].aircraft_id
        /\ \E c \in 1 .. Len(engine_components) :
            /\ engine_components[c].component_id = maintenance_history[e].component_id
            /\ engine_components[c].aircraft_id = maintenance_history[e].aircraft_id

\* Two setup runs have completed; among the events are one on the fourth engine of an
\* A320 and one on the B737.
C23_Witness ==
    /\ Len(maintenance_history) = 2 * (PredictiveEvents + ReactiveEvents)
    /\ \E e \in 1 .. Len(maintenance_history) :
        maintenance_history[e].component_id = ComponentId(A320Id(1), 4)
    /\ \E e \in 1 .. Len(maintenance_history) :
        maintenance_history[e].component_id = ComponentId(B737Id, 3)

\* C24: after setup, each of the five suppliers has an offer for each part of the
\* catalog, every offer's delivery_days is within 1 day of its supplier's average and
\* positive, and find_best_supplier returns a result for a part_number of the
\* catalog and None for one outside it.
C24_BestSupplierFound ==
    /\ conn = "open" =>
        /\ Len(suppliers) = 5
        /\ Len(parts_catalog) = NumParts
        /\ \A s \in 1 .. Len(suppliers), p \in 1 .. Len(parts_catalog) :
            \E o \in 1 .. Len(supplier_parts) :
                /\ supplier_parts[o].supplier_id = suppliers[s].supplier_id
                /\ supplier_parts[o].part_number = parts_catalog[p].part_number
        /\ \A o \in 1 .. Len(supplier_parts) :
            /\ supplier_parts[o].delivery_days > 0
            /\ \E s \in 1 .. Len(suppliers) :
                /\ suppliers[s].supplier_id = supplier_parts[o].supplier_id
                /\ supplier_parts[o].delivery_days - suppliers[s].avg_delivery_days
                        \in {-1, 0, 1}
    /\ ret.call = "find_best_supplier" =>
        /\ ret.value # Null <=>
            \E p \in 1 .. Len(parts_catalog) : parts_catalog[p].part_number = ret.arg
        /\ ret.value # Null => ret.value[1].delivery_days > 0

\* After a setup, the best supplier of the last part of the catalog has been found,
\* and it delivers a day sooner than its average.
C24_Witness ==
    /\ ret.call = "find_best_supplier"
    /\ ret.arg = parts_catalog[Len(parts_catalog)].part_number
    /\ ret.value # Null
    /\ \E s \in 1 .. Len(suppliers) :
        /\ suppliers[s].name = ret.value[1].supplier
        /\ ret.value[1].delivery_days = suppliers[s].avg_delivery_days - 1

\* The rows of cost_analytics for the period '2024-Q4' in the state after a step.
Q4RowsAfter == {i \in 1 .. Len(cost_analytics') : cost_analytics'[i].period = "2024-Q4"}

\* C25: on an open store get_cost_calculator_data returns None exactly while no
\* cost_analytics row of '2024-Q4' exists, otherwise a record whose fields equal the
\* stored row, and it modifies nothing of the store; a row that a run of
\* generate_cost_analytics has stored stays, one per period, for every later call.
C25_CalculatorData ==
    /\ [][GetCostCalculatorData =>
            /\ UNCHANGED <<conn, tables>>
            /\ ret'.call = "get_cost_calculator_data"
            /\ ret'.value = Null <=> Q4RowsAfter = {}
            /\ ret'.value # Null =>
                \E i \in Q4RowsAfter :
                    /\ ret'.value[1].period = cost_analytics'[i].period
                    /\ ret'.value[1].total_events = cost_analytics'[i].total_maintenance_events
                    /\ ret'.value[1].predictive_count
                            = cost_analytics'[i].predictive_maintenance_count
                    /\ ret'.value[1].reactive_count
                            = cost_analytics'[i].reactive_maintenance_count
                    /\ ret'.value[1].predictive_cost = cost_analytics'[i].total_cost_predictive
                    /\ ret'.value[1].reactive_cost = cost_analytics'[i].total_cost_reactive
                    /\ ret'.value[1].total_savings = cost_analytics'[i].total_savings
                    /\ ret'.value[1].downtime_saved = cost_analytics'[i].downtime_hours_saved
                    /\ ret'.value[1].flights_saved
                            = cost_analytics'[i].flights_cancelled_avoided]_vars
    /\ [][GenerateCostAnalytics => Q4RowsAfter # {}]_vars
    /\ [][Q4Rows # {} => Cardinality(Q4RowsAfter) = 1]_vars

\* The record of the row of the second run has been returned.
C25_Witness ==
    /\ ret.call = "get_cost_calculator_data"
    /\ ret.value # Null
    /\ Q4Rows # {}
    /\ \A i \in Q4Rows :
        /\ cost_analytics[i].total_maintenance_events
                = 2 * (PredictiveEvents + ReactiveEvents)
        /\ ret.value[1].total_events = cost_analytics[i].total_maintenance_events

\* None has been returned on the open store before the first run.
C25_WitnessNone ==
    /\ ret.call = "get_cost_calculator_data"
    /\ ret.value = Null
    /\ conn = "open"
    /\ cost_analytics = <<>>

====
